---- MODULE Spec2Model ----
(***************************************************************************)
(* Model of simulate_call_center (src/call_center.py): an event-driven     *)
(* M/M/c simulation.  One action per path through one iteration of the     *)
(* while loop (lines 44-77) and one for the metrics computation            *)
(* (lines 79-93).  Drawn durations (random.expovariate) are non-negative   *)
(* and are modelled as a nondeterministic choice from 0..MaxDur; times are *)
(* integers.                                                               *)
(***************************************************************************)
EXTENDS Integers, Sequences, FiniteSets

\* ---- bounds of the model ----
MaxAgents == 2
MaxHorizon == 3
MaxDur == 2
MaxEvents == 5

Durations == 0..MaxDur

\* float('inf') of line 46: larger than every timestamp the bounded run can hold
Inf == (MaxEvents + 2) * (MaxDur + 1) + MaxHorizon

VARIABLES
    num_agents,       \* parameter num_agents
    sim_time,         \* parameter sim_time (the horizon)
    clock,            \* line 33
    queue,            \* line 34: arrival timestamps of waiting calls
    agents_busy,      \* line 35
    next_arrival,     \* line 36
    next_departures,  \* line 37: list of pending departure timestamps
    wait_times,       \* line 39
    busy_time,        \* line 40
    time_points,      \* line 41
    queue_lengths,    \* line 42
    pc,               \* "loop" while in the while loop, "done" after return
    result,           \* the returned metrics dict (lines 85-93)
    log,              \* history: one record per processed event
    queue_ids,        \* history: for each call in queue, the index in log of its arrival
    served            \* history: one record per service start, parallel to wait_times

vars == <<num_agents, sim_time, clock, queue, agents_busy, next_arrival,
          next_departures, wait_times, busy_time, time_points, queue_lengths,
          pc, result, log, queue_ids, served>>

\* ---- helpers ----
RECURSIVE SeqSum(_)
SeqSum(s) == IF s = <<>> THEN 0 ELSE Head(s) + SeqSum(Tail(s))

RECURSIVE SeqMin(_)
SeqMin(s) == IF Len(s) = 1 THEN s[1]
             ELSE LET m == SeqMin(Tail(s)) IN IF s[1] <= m THEN s[1] ELSE m

Last(s) == s[Len(s)]

\* index of the first occurrence of x in s (x occurs in s)
FirstIndex(s, x) == CHOOSE i \in 1..Len(s) : s[i] = x /\ \A j \in 1..(i-1) : s[j] # x

RemoveAtSlice(s, i) == SubSeq(s, 1, i-1) \o SubSeq(s, i+2, Len(s))
\* lines 69, 71: list.remove / list.pop take out exactly the element at one position
RemoveAt(s, i) == SubSeq(s, 1, i-1) \o SubSeq(s, i+1, Len(s))

\* line 46: next_departure = min(next_departures) if next_departures else inf
NextDeparture(deps) == IF deps # <<>> THEN SeqMin(deps) ELSE Inf

NextEventTimeMax(na, nd) == IF nd = Inf \/ na >= nd THEN na ELSE nd
\* line 47: next_event_time = min(next_arrival, next_departure)
NextEventTime(na, nd) == IF na <= nd THEN na ELSE nd

IsArrivalStrict(na, nd) == na < nd
\* line 57: if next_arrival <= next_departure
IsArrival(na, nd) == na <= nd

CanAdmitOffByOne(busy, n) == busy <= n
\* line 59: if agents_busy < num_agents
CanAdmit(busy, n) == busy < n

RemoveAll(deps, x) == SelectSeq(deps, LAMBDA y : y # x)
\* line 69: next_departures.remove(next_departure) removes the first occurrence
Remove(deps, x) == RemoveAt(deps, FirstIndex(deps, x))

HasWaitingMoreThanOne(q) == Len(q) > 1
\* line 70: if queue
HasWaiting(q) == q # <<>>

PopIndexLast(q) == Len(q)
\* line 71: queue.pop(0) takes the element at the front
PopIndex(q) == 1

WaitReversed(now, arrival_time) == arrival_time - now
\* line 72: wait = clock - arrival_time
Wait(now, arrival_time) == now - arrival_time

LoopCondInclusive(now, horizon) == now <= horizon
\* line 44: while clock < sim_time
LoopCond(now, horizon) == now < horizon

ElapsedFromZero(t, now) == t
\* line 48: dt = next_event_time - clock
Elapsed(t, now) == t - now

NoResult == [agents |-> 0, avg_wait |-> <<0, 1>>, avg_queue_len |-> <<0, 1>>,
             utilization |-> <<0, 1>>, throughput |-> <<0, 1>>,
             time_points |-> <<>>, queue_lengths |-> <<>>]

\* lines 80-93: the metrics; a quotient is kept as <<numerator, denominator>>
Metrics == [agents |-> num_agents,
            avg_wait |-> IF wait_times # <<>>
                         THEN <<SeqSum(wait_times), Len(wait_times)>>
                         ELSE <<0, 1>>,
            avg_queue_len |-> <<SeqSum(queue_lengths), Len(queue_lengths)>>,
            utilization |-> <<busy_time, sim_time * num_agents>>,
            throughput |-> <<Len(wait_times), sim_time>>,
            time_points |-> time_points,
            queue_lengths |-> queue_lengths]

\* ---- initial state: lines 33-42 ----
Init ==
    /\ num_agents \in 1..MaxAgents
    /\ sim_time \in 1..MaxHorizon
    /\ clock = 0
    /\ queue = <<>>
    /\ agents_busy = 0
    /\ next_arrival \in Durations
    /\ next_departures = <<>>
    /\ wait_times = <<>>
    /\ busy_time = 0
    /\ time_points = <<>>
    /\ queue_lengths = <<>>
    /\ pc = "loop"
    /\ result = NoResult
    /\ log = <<>>
    /\ queue_ids = <<>>
    /\ served = <<>>

AdvanceStaleSample(kind) ==
    LET next_departure == NextDeparture(next_departures)
        next_event_time == NextEventTime(next_arrival, next_departure)
        dt == Elapsed(next_event_time, clock)
    IN  /\ pc = "loop"
        /\ LoopCond(clock, sim_time)
        /\ Len(log) < MaxEvents
        /\ busy_time' = busy_time + agents_busy * dt
        /\ clock' = next_event_time
        /\ time_points' = Append(time_points, clock)
        /\ queue_lengths' = Append(queue_lengths, Len(queue))
        /\ log' = Append(log, [kind |-> kind, t |-> next_event_time,
                               na |-> next_arrival, nd |-> next_departure,
                               busy |-> agents_busy, from |-> clock])
        /\ UNCHANGED <<num_agents, sim_time, pc, result>>

AdvanceNoClock(kind) ==
    LET next_departure == NextDeparture(next_departures)
        next_event_time == NextEventTime(next_arrival, next_departure)
        dt == Elapsed(next_event_time, clock)
    IN  /\ pc = "loop"
        /\ LoopCond(clock, sim_time)
        /\ Len(log) < MaxEvents
        /\ busy_time' = busy_time + agents_busy * dt
        /\ clock' = clock
        /\ time_points' = Append(time_points, clock)
        /\ queue_lengths' = Append(queue_lengths, Len(queue))
        /\ log' = Append(log, [kind |-> kind, t |-> next_event_time,
                               na |-> next_arrival, nd |-> next_departure,
                               busy |-> agents_busy, from |-> clock])
        /\ UNCHANGED <<num_agents, sim_time, pc, result>>

\* lines 44-54: loop test, choice of the next event, clock advance, sampling
Advance(kind) ==
    LET next_departure == NextDeparture(next_departures)
        next_event_time == NextEventTime(next_arrival, next_departure)
        dt == Elapsed(next_event_time, clock)
    IN  /\ pc = "loop"
        /\ LoopCond(clock, sim_time)
        /\ Len(log) < MaxEvents
        /\ busy_time' = busy_time + agents_busy * dt
        /\ clock' = next_event_time
        /\ time_points' = Append(time_points, next_event_time)
        /\ queue_lengths' = Append(queue_lengths, Len(queue))
        /\ log' = Append(log, [kind |-> kind, t |-> next_event_time,
                               na |-> next_arrival, nd |-> next_departure,
                               busy |-> agents_busy, from |-> clock])
        /\ UNCHANGED <<num_agents, sim_time, pc, result>>

\* lines 57-63, 66: arrival with a free agent
ArrivalAdmit ==
    /\ IsArrival(next_arrival, NextDeparture(next_departures))
    /\ CanAdmit(agents_busy, num_agents)
    /\ Advance("Arrival")
    /\ agents_busy' = agents_busy + 1
    /\ \E service_time \in Durations :
          next_departures' = Append(next_departures, clock' + service_time)
    /\ wait_times' = Append(wait_times, 0)
    /\ served' = Append(served, [id |-> Len(log'), ev |-> Len(log'), arrived |-> clock',
                                 start |-> clock', queued |-> FALSE])
    /\ \E d \in Durations : next_arrival' = clock' + d
    /\ UNCHANGED <<queue, queue_ids>>

\* lines 57-59, 64-66: arrival with every agent busy
ArrivalEnqueue ==
    /\ IsArrival(next_arrival, NextDeparture(next_departures))
    /\ ~CanAdmit(agents_busy, num_agents)
    /\ Advance("Arrival")
    /\ queue' = Append(queue, clock')
    /\ queue_ids' = Append(queue_ids, Len(log'))
    /\ \E d \in Durations : next_arrival' = clock' + d
    /\ UNCHANGED <<agents_busy, next_departures, wait_times, served>>

\* lines 67-75: departure with a call waiting
DepartureServe ==
    /\ ~IsArrival(next_arrival, NextDeparture(next_departures))
    /\ HasWaiting(queue)
    /\ Advance("Departure")
    /\ LET i == PopIndex(queue)
           arrival_time == queue[i]
           wait == Wait(clock', arrival_time)
       IN  /\ queue' = RemoveAt(queue, i)
           /\ queue_ids' = RemoveAt(queue_ids, i)
           /\ wait_times' = Append(wait_times, wait)
           /\ served' = Append(served, [id |-> queue_ids[i], ev |-> Len(log'),
                                        arrived |-> arrival_time,
                                        start |-> clock', queued |-> TRUE])
           /\ \E service_time \in Durations :
                 next_departures' =
                     Append(Remove(next_departures, NextDeparture(next_departures)),
                            clock' + service_time)
    /\ UNCHANGED <<agents_busy, next_arrival>>

\* lines 67-70, 76-77: departure with nobody waiting
DepartureRelease ==
    /\ ~IsArrival(next_arrival, NextDeparture(next_departures))
    /\ ~HasWaiting(queue)
    /\ Advance("Departure")
    /\ next_departures' = Remove(next_departures, NextDeparture(next_departures))
    /\ agents_busy' = agents_busy - 1
    /\ UNCHANGED <<queue, queue_ids, wait_times, served, next_arrival>>

\* lines 44, 79-93: loop exit and the returned metrics.  statistics.mean of
\* an empty list (line 81) raises StatisticsError and a zero divisor
\* (lines 82, 83) raises ZeroDivisionError; nothing is returned then.
Finish ==
    /\ pc = "loop"
    /\ ~LoopCond(clock, sim_time)
    /\ IF queue_lengths = <<>>
          THEN pc' = "StatisticsError" /\ result' = result
          ELSE IF sim_time * num_agents = 0 \/ sim_time = 0
                 THEN pc' = "ZeroDivisionError" /\ result' = result
                 ELSE pc' = "done" /\ result' = Metrics
    /\ UNCHANGED <<num_agents, sim_time, clock, queue, agents_busy, next_arrival,
                   next_departures, wait_times, busy_time, time_points,
                   queue_lengths, log, queue_ids, served>>

Next == ArrivalAdmit \/ ArrivalEnqueue \/ DepartureServe \/ DepartureRelease \/ Finish

Spec == Init /\ [][Next]_vars

\* ---- the same run started with any arguments: nothing in lines 23-42 checks
\* num_agents or sim_time ----
InitConfig ==
    /\ num_agents \in -1..MaxAgents
    /\ sim_time \in -1..MaxHorizon
    /\ clock = 0
    /\ queue = <<>>
    /\ agents_busy = 0
    /\ next_arrival \in Durations
    /\ next_departures = <<>>
    /\ wait_times = <<>>
    /\ busy_time = 0
    /\ time_points = <<>>
    /\ queue_lengths = <<>>
    /\ pc = "loop"
    /\ result = NoResult
    /\ log = <<>>
    /\ queue_ids = <<>>
    /\ served = <<>>

SpecConfig == InitConfig /\ [][Next]_vars

\* ---- the same run with a sampler whose inter-arrival draws (lines 36, 66)
\* are all at least MinGap; the horizon is small enough for the run to end
\* within MaxEvents events ----
MinGap == 1

InitPositive ==
    /\ Init
    /\ next_arrival >= MinGap
    /\ 2 * sim_time - 1 <= MaxEvents

PositiveGap == next_arrival' >= clock' + MinGap

NextPositive ==
    \/ ArrivalAdmit /\ PositiveGap
    \/ ArrivalEnqueue /\ PositiveGap
    \/ DepartureServe
    \/ DepartureRelease
    \/ Finish

\* the program is sequential and always takes its next step
SpecPositive == InitPositive /\ [][NextPositive]_vars /\ WF_vars(NextPositive)

\* ---- properties ----

\* C1 (Conservation): in every reachable state the number of pending
\* departure timestamps equals agents_busy, and 0 <= agents_busy <= num_agents.
Conservation ==
    /\ Len(next_departures) = agents_busy
    /\ 0 <= agents_busy
    /\ agents_busy <= num_agents

\* every agent busy after at least one departure has been processed
ConservationWitness ==
    /\ agents_busy = num_agents
    /\ num_agents = 2
    /\ \E i \in DOMAIN log : log[i].kind = "Departure"

\* C2 (Queueing discipline): between events, a non-empty waiting queue implies
\* that every agent is busy.
QueueingDiscipline == queue # <<>> => agents_busy = num_agents

\* a queued call has been taken into service and another call is still waiting
QueueingDisciplineWitness ==
    /\ queue # <<>>
    /\ \E i \in DOMAIN served : served[i].queued

\* C3 (Horizon guard): no event whose timestamp is at or beyond sim_time is
\* ever applied.
HorizonGuard == \A i \in DOMAIN log : log[i].t < sim_time

\* C4 (Utilization bound): the returned utilization lies in [0, 1], that is
\* 0 <= busy_time <= sim_time * num_agents at the end of the run.
UtilizationBound ==
    pc = "done" =>
        /\ 0 <= result.utilization[1]
        /\ result.utilization[1] <= result.utilization[2]

\* C5 (Empty-system edge case): if the first scheduled arrival is at or after
\* the horizon, the run ends with wait_times empty, avg_wait = 0 and
\* throughput = 0.
EmptySystem ==
    (pc = "done" /\ log # <<>> /\ log[1].na >= sim_time) =>
        /\ wait_times = <<>>
        /\ result.avg_wait[1] = 0
        /\ result.throughput[1] = 0

\* C6 (Tie-break): whenever the pending arrival time equals the smallest
\* pending departure time the event applied is the Arrival and the departure
\* stays pending; a Departure is applied only when the smallest pending
\* departure is strictly earlier than the pending arrival.
TieBreak ==
    [][Len(log') = Len(log) + 1 =>
        /\ (next_departures # <<>> /\ next_arrival = SeqMin(next_departures)) =>
              /\ Last(log').kind = "Arrival"
              /\ Len(next_departures') >= Len(next_departures)
              /\ SubSeq(next_departures', 1, Len(next_departures)) = next_departures
        /\ Last(log').kind = "Departure" =>
              /\ next_departures # <<>>
              /\ SeqMin(next_departures) < next_arrival]_vars

\* an Arrival was applied at a tie, and the tied departure was handled later
TieBreakWitness ==
    \E i \in DOMAIN log :
        /\ log[i].kind = "Arrival"
        /\ log[i].na = log[i].nd
        /\ \E j \in DOMAIN log : j > i /\ log[j].kind = "Departure" /\ log[j].t = log[i].nd

\* C7 (FIFO / no overtaking): the call that begins service at a departure is
\* the earliest-arrived waiting call, and no call begins service before a call
\* that arrived earlier than it (immediate admissions included).
NoOvertaking ==
    [][Len(served') = Len(served) + 1 =>
        /\ \A k \in DOMAIN served : served[k].id < Last(served').id
        /\ \A k \in DOMAIN queue_ids' : Last(served').id < queue_ids'[k]
        /\ Last(log').kind = "Departure" =>
              \A k \in DOMAIN queue :
                  /\ Last(served').arrived <= queue[k]
                  /\ Last(served').id <= queue_ids[k]]_vars

\* a departure was processed while at least two calls were waiting
NoOvertakingWitness ==
    \E m \in DOMAIN log : log[m].kind = "Departure" /\ queue_lengths[m] >= 2

\* C8 (Non-negative waits): every recorded wait time is >= 0; the clock at the
\* moment a call is dequeued is >= the arrival timestamp stored for it.
WaitNonNegative ==
    /\ \A i \in DOMAIN wait_times : wait_times[i] >= 0
    /\ \A i \in DOMAIN served : served[i].start >= served[i].arrived

\* a queued call began service strictly later than it arrived
WaitNonNegativeWitness ==
    \E i \in DOMAIN served : served[i].queued /\ served[i].start > served[i].arrived

\* C9 (Wait classification, as stated): immediately admitted calls record
\* wait = 0 and queued calls record wait > 0.
WaitClassification ==
    \A i \in DOMAIN served :
        /\ ~served[i].queued => wait_times[i] = 0
        /\ served[i].queued => wait_times[i] > 0

\* C9 (Wait classification, amended): immediately admitted calls record
\* wait = 0 at their own arrival event; a queued call begins service at a later
\* Departure event and records the difference of the two event timestamps,
\* which is >= 0 (0 when the serving departure has the arrival's timestamp).
WaitClassificationAmended ==
    \A i \in DOMAIN served :
        LET s == served[i] IN
        /\ ~s.queued => wait_times[i] = 0 /\ s.ev = s.id
        /\ s.queued =>
              /\ s.ev > s.id
              /\ log[s.id].kind = "Arrival"
              /\ log[s.ev].kind = "Departure"
              /\ wait_times[i] = time_points[s.ev] - time_points[s.id]
              /\ wait_times[i] >= 0

\* a queued call recorded wait 0 and another queued call recorded wait > 0
WaitClassificationWitness ==
    /\ \E i \in DOMAIN served : served[i].queued /\ wait_times[i] = 0
    /\ \E i \in DOMAIN served : served[i].queued /\ wait_times[i] > 0

\* C10 (Clock monotonicity): the clock never decreases from one processed
\* event to the next, and after each processed event it equals the timestamp
\* of that event, the minimum of the pending arrival and the smallest pending
\* departure.
ClockMonotone ==
    [][/\ clock' >= clock
       /\ Len(log') = Len(log) => clock' = clock
       /\ Len(log') = Len(log) + 1 =>
             /\ clock' = Last(time_points')
             /\ clock' <= next_arrival
             /\ \A k \in DOMAIN next_departures : clock' <= next_departures[k]
             /\ \/ clock' = next_arrival
                \/ \E k \in DOMAIN next_departures : clock' = next_departures[k]]_vars

\* the clock has advanced strictly, the later event being a Departure
ClockMonotoneWitness ==
    \E i, j \in DOMAIN log :
        /\ i < j
        /\ log[i].t < log[j].t
        /\ log[j].kind = "Departure"
        /\ clock = Last(log).t

\* C11 (Configuration validation): a run invoked with num_agents < 1 or
\* sim_time <= 0 ends in a ConfigurationError outcome before any event is
\* processed.
ConfigValidation ==
    (num_agents < 1 \/ sim_time <= 0) =>
        /\ log = <<>>
        /\ pc \in {"loop", "ConfigurationError"}

\* C13 (Departure handling): a Departure event removes exactly one pending
\* departure; with a non-empty queue it removes the queue head, records one
\* wait, schedules one new departure and leaves agents_busy unchanged; with an
\* empty queue it decrements agents_busy by one and schedules nothing.  The
\* pending arrival time is unchanged in both cases.
DepartureHandling ==
    [][(Len(log') = Len(log) + 1 /\ Last(log').kind = "Departure") =>
        /\ next_arrival' = next_arrival
        /\ IF queue # <<>>
             THEN /\ queue' = Tail(queue)
                  /\ Len(wait_times') = Len(wait_times) + 1
                  /\ Len(next_departures') = Len(next_departures)
                  /\ Last(next_departures') >= clock'
                  /\ agents_busy' = agents_busy
             ELSE /\ queue' = queue
                  /\ wait_times' = wait_times
                  /\ Len(next_departures') = Len(next_departures) - 1
                  /\ agents_busy' = agents_busy - 1]_vars

\* one Departure found a call waiting and another found the queue empty
DepartureHandlingWitness ==
    /\ \E i \in DOMAIN log : log[i].kind = "Departure" /\ queue_lengths[i] > 0
    /\ \E j \in DOMAIN log : log[j].kind = "Departure" /\ queue_lengths[j] = 0

\* number of occurrences of x in the sequence s
Count(s, x) == Cardinality({k \in DOMAIN s : s[k] = x})

\* C14 (Multiset removal): a Departure event removes exactly one instance of
\* the minimum pending departure timestamp and leaves every other pending
\* entry in place; an Arrival event removes none, so each remaining instance
\* leaves only through a Departure event of its own.
MultisetRemoval ==
    [][Len(log') = Len(log) + 1 =>
        IF Last(log').kind = "Departure"
          THEN LET m == SeqMin(next_departures)
                   kept == IF queue # <<>>
                             THEN SubSeq(next_departures', 1, Len(next_departures') - 1)
                             ELSE next_departures'
               IN  /\ Last(log').t = m
                   /\ Count(kept, m) = Count(next_departures, m) - 1
                   /\ \A k \in DOMAIN next_departures :
                         next_departures[k] # m =>
                            Count(kept, next_departures[k]) =
                                Count(next_departures, next_departures[k])
                   /\ Len(kept) = Len(next_departures) - 1
          ELSE SubSeq(next_departures', 1, Len(next_departures)) = next_departures]_vars

\* a Departure with nothing to reschedule left another instance of its own
\* timestamp pending
MultisetRemovalWitness ==
    /\ log # <<>>
    /\ Last(log).kind = "Departure"
    /\ Last(queue_lengths) = 0
    /\ \E k \in DOMAIN next_departures : next_departures[k] = Last(log).t

\* C15 (Event-triggered sampling): exactly one (time, queue length) sample is
\* appended per processed event; the sampled time is the event's timestamp and
\* the sampled length is the queue length before the event's effect.
Sampling ==
    [][/\ Len(time_points') = Len(log')
       /\ Len(queue_lengths') = Len(log')
       /\ Len(log') = Len(log) + 1 =>
             /\ time_points' = Append(time_points, clock')
             /\ Last(time_points') = Last(log').t
             /\ queue_lengths' = Append(queue_lengths, Len(queue))
       /\ Len(log') = Len(log) =>
             /\ time_points' = time_points
             /\ queue_lengths' = queue_lengths]_vars

\* the last event was a Departure that emptied a queue sampled at length 1,
\* after the clock had moved
SamplingWitness ==
    /\ log # <<>>
    /\ Last(log).kind = "Departure"
    /\ Last(queue_lengths) = 1
    /\ queue = <<>>
    /\ Last(time_points) > 0

RECURSIVE BusyIntegral(_)
\* sum over the first n events of (agents_busy before the event) * (its
\* timestamp minus the previous event's timestamp, 0 before the first)
BusyIntegral(n) ==
    IF n = 0 THEN 0
    ELSE BusyIntegral(n - 1) +
         log[n].busy * (time_points[n] - (IF n = 1 THEN 0 ELSE time_points[n - 1]))

\* C16 (Busy-time integral): after each processed event busy_time equals the
\* sum over all processed events of agents_busy before the event times the
\* interval since the previous event.
BusyTimeIntegral ==
    [][/\ Len(log') = Len(log) + 1 => Last(log').busy = agents_busy
       /\ busy_time' = BusyIntegral(Len(log))']_vars

\* an interval of positive length was spent with two agents busy
BusyTimeIntegralWitness ==
    /\ busy_time > 0
    /\ \E i \in DOMAIN log : log[i].busy = 2 /\ i > 1 /\ time_points[i] > time_points[i - 1]

\* C17 (Call conservation): the number of Arrival events processed equals
\* len(wait_times) + len(queue); every arrived call is either waiting or has
\* exactly one wait recorded, never both and never neither.
CallConservation ==
    LET arrivals == {i \in DOMAIN log : log[i].kind = "Arrival"}
        waiting == {queue_ids[k] : k \in DOMAIN queue_ids}
        started == {served[k].id : k \in DOMAIN served}
    IN  /\ Cardinality(arrivals) = Len(wait_times) + Len(queue)
        /\ Len(queue_ids) = Len(queue)
        /\ Len(served) = Len(wait_times)
        /\ Cardinality(waiting) = Len(queue)
        /\ Cardinality(started) = Len(wait_times)
        /\ waiting \cap started = {}
        /\ waiting \cup started = arrivals

\* calls waiting, calls served from the queue and calls admitted immediately
CallConservationWitness ==
    /\ queue # <<>>
    /\ \E i \in DOMAIN served : served[i].queued
    /\ \E i \in DOMAIN served : ~served[i].queued

\* C18 (Bounded overshoot): every processed event except the last has a
\* timestamp strictly below the horizon, so at most one event at or beyond the
\* horizon is applied and it is the final one; the run ends with
\* clock >= sim_time.
BoundedOvershoot ==
    /\ \A i \in DOMAIN log : i < Len(log) => log[i].t < sim_time
    /\ pc = "done" => clock >= sim_time /\ log # <<>> /\ clock = Last(log).t

\* a finished run whose last event lies strictly beyond the horizon
BoundedOvershootWitness ==
    /\ pc = "done"
    /\ Len(log) >= 2
    /\ Last(log).t > sim_time

\* C20 (Busy-time bound against the clock): in every reachable state
\* 0 <= busy_time <= num_agents * clock.
BusyTimeBound ==
    /\ 0 <= busy_time
    /\ busy_time <= num_agents * clock

\* the bound is met with equality with two agents and a clock past the horizon
BusyTimeBoundWitness ==
    /\ num_agents = 2
    /\ clock > sim_time
    /\ busy_time = num_agents * clock

\* C19 (Termination): when every inter-arrival draw is at least a fixed
\* positive amount (service draws non-negative), the event loop eventually
\* reaches clock >= sim_time and the run finishes.
Termination == <>(pc = "done" /\ clock >= sim_time)

\* a finished run in which a call had to wait in the queue
TerminationWitness ==
    /\ pc = "done"
    /\ Len(log) >= 4
    /\ \E i \in DOMAIN served : served[i].queued

\* with inter-arrival draws of 0 allowed: any number of events processed with
\* the clock still at 0, below the horizon
ZeroDrawStall ==
    /\ pc = "loop"
    /\ Len(log) = MaxEvents
    /\ clock = 0
    /\ clock < sim_time

====
